---- MODULE Spec2Model ----
(***************************************************************************)
(* Model of the chart front end of shuibi_mt: the incremental historical   *)
(* data loader (useChartData), the chart hook that owns the candlestick    *)
(* series and the drag selection (useChart), and the page component that   *)
(* owns the timeframe, the selected range and the backtest result          *)
(* (BacktestChart).                                                        *)
(***************************************************************************)
EXTENDS Integers, Sequences, FiniteSets, TLC

\* ------------------------------------------------------------------------
\* Bounds of the model
\* ------------------------------------------------------------------------

\* the largest batch the modelled backend hands out (stands for limit=1000)
MaxBatch == 2

\* number of distinct candle contents the backend may report for one time
NumVersions == 2

\* ------------------------------------------------------------------------
\* Values
\* ------------------------------------------------------------------------

SecondsPerDay == 86400

\* null / undefined, for each kind of value that can be absent
Null == "null"
NullTime == -1
NullStamp == [d |-> NullTime, s |-> NullTime]
NullRange == [start |-> NullTime, end |-> NullTime]
NullResult == [present |-> FALSE, price_data |-> <<>>]

\* dayjs(null).format(...) yields the string "Invalid Date"
InvalidDate == [d |-> NullTime, s |-> 0]

\* A naive date-time string "YYYY-MM-DD HH:mm:ss" is modelled by its
\* calendar day d and its second of the day s.
Stamp(d, s) == [d |-> d, s |-> s]

\* new Date(timestamp + "Z").getTime() / 1000
ParseUTC(ts) == ts.d * SecondsPerDay + ts.s

\* the naive date-time that an epoch second shows in UTC
StampOf(epoch) == [d |-> epoch \div SecondsPerDay, s |-> epoch % SecondsPerDay]

\* dayjs(timestamp): a naive string is read as local wall-clock time
DayjsParse(ts, tz) == ParseUTC(ts) - tz

\* dayjs(...).format("YYYY-MM-DD HH:mm:ss"): local wall-clock time
DayjsFormat(epoch, tz) == StampOf(epoch + tz)

\* the Select options of the page
Intervals == {"1m", "5m", "15m", "1h", "1d"}

\* the options the modelled user picks
IntervalChoices == {"1m", "1h"}

\* the request parameters fixed by loadData
FetchLimit == 1000
Symbol == "BTCUSDT"

\* the browser's offset from UTC, in seconds
TzOffsets == {-3600, 3600}

\* the candles the backend stores, by naive UTC timestamp
StoreStamps == {Stamp(1, 0), Stamp(1, 60), Stamp(1, 120), Stamp(2, 0)}

\* the wall clock (epoch seconds) while the model runs
NowEpoch == 2 * SecondsPerDay + 60

Versions == 1..NumVersions

Min(a, b) == IF a < b THEN a ELSE b

\* ------------------------------------------------------------------------
\* The historical-data collaborator (GET /api/historical/{symbol})
\* ------------------------------------------------------------------------

RECURSIVE AscendingStamps(_)
\* the stamps of a set, oldest first
AscendingStamps(S) ==
    IF S = {} THEN <<>>
    ELSE LET m == CHOOSE x \in S : \A y \in S : ParseUTC(x) <= ParseUTC(y)
         IN <<m>> \o AscendingStamps(S \ {m})

LastN(s, n) == IF Len(s) <= n THEN s ELSE SubSeq(s, Len(s) - n + 1, Len(s))

\* the stored candles strictly older than end_time, the newest `limit' of
\* them, oldest first
HistoricalStamps(end_time, limit) ==
    LastN(AscendingStamps({ts \in StoreStamps : ParseUTC(ts) < ParseUTC(end_time)}),
          Min(limit, MaxBatch))

\* the newest stored candle is still forming: its content is the version v
\* of the moment of the request; every older candle is final (version 1)
NewestStamp == CHOOSE x \in StoreStamps : \A y \in StoreStamps : ParseUTC(y) <= ParseUTC(x)
CandleAt(ts, v) == [timestamp |-> ts, val |-> IF ts = NewestStamp THEN v ELSE 1]

\* the body of a response
PriceData(end_time, limit, v) ==
    LET stamps == HistoricalStamps(end_time, limit)
    IN [i \in 1..Len(stamps) |-> CandleAt(stamps[i], v)]

\* ------------------------------------------------------------------------
\* useChartData: the pure part of loadData
\* ------------------------------------------------------------------------

\* price_data.map(item => ({time: new Date(item.timestamp + "Z") / 1000, ...}))
FormattedData(price_data) ==
    [i \in 1..Len(price_data) |->
        [time |-> ParseUTC(price_data[i].timestamp), val |-> price_data[i].val]]

\* Map.prototype.set: a key keeps the position of its first insertion and
\* takes the value of its last one
MapSetNoDedup(m, item) == Append(m, item)
MapSetFirstWins(m, item) ==
    IF \E i \in 1..Len(m) : m[i].time = item.time
    THEN m
    ELSE Append(m, item)
MapSet(m, item) ==
    IF \E i \in 1..Len(m) : m[i].time = item.time
    THEN [i \in 1..Len(m) |-> IF m[i].time = item.time THEN item ELSE m[i]]
    ELSE Append(m, item)

RECURSIVE MapValues(_, _)
\* Array.from(new Map(allData.map(item => [item.time, item])).values())
MapValues(m, allData) ==
    IF allData = <<>> THEN m
    ELSE MapValues(MapSet(m, Head(allData)), Tail(allData))

UniqueData(allData) == MapValues(<<>>, allData)

\* one step of a stable sort: x goes behind every element that is not later
InsertByTime(sorted, x) ==
    LET k == Cardinality({i \in 1..Len(sorted) : sorted[i].time <= x.time})
    IN SubSeq(sorted, 1, k) \o <<x>> \o SubSeq(sorted, k + 1, Len(sorted))

RECURSIVE SortFrom(_, _)
SortFrom(sorted, rest) ==
    IF rest = <<>> THEN sorted
    ELSE SortFrom(InsertByTime(sorted, Head(rest)), Tail(rest))

\* uniqueData.sort((a, b) => a.time - b.time)
SortByTimeNone(data) == data
SortByTime(data) == SortFrom(<<>>, data)

\* the series loadData hands to setData
MergedDataNewOnly(formattedData, previousData) ==
    SortByTime(UniqueData(formattedData))
MergedData(formattedData, previousData) ==
    SortByTime(UniqueData(formattedData \o previousData))

\* ------------------------------------------------------------------------
\* State
\* ------------------------------------------------------------------------

VARIABLES
    mounted,             \* BacktestChart has been mounted
    tzOffset,            \* the browser's offset from UTC (seconds)
    modifierHeld,        \* the ctrl/meta key is physically down
    timeframe,           \* BacktestChart: useState("1m")
    selectedRange,       \* BacktestChart: useState(null), {start, end}
    backtestResult,      \* BacktestChart: useState(null)
    isLoadingBacktest,   \* BacktestChart: useState(false)
    drawerVisible,       \* BacktestChart: useState(false)
    backtestInflight,    \* POST /api/backtest requests not yet answered
    messages,            \* the texts of the antd message.error notifications
    isLoadingRef,        \* useChartData: useRef(false)
    isLoading,           \* useChart: useState(false), written by setLoading
    oldestTimestampRef,  \* useChartData: useRef(null)
    candlestickData,     \* candlestickSeriesRef.current.data()
    inflight,            \* getHistoricalData requests not yet answered
    unhandledRejection,  \* a promise of loadData was rejected
    selectionStartRef,   \* useChart: useRef(null)
    selectionEndRef,     \* useChart: useRef(null)
    panZoomEnabled,      \* chart options handleScroll / handleScale
    overlay,             \* the times between which the overlay element is
                         \* drawn; NullRange while its display is "none"
    submits,             \* number of handleSubmit calls so far
    lastFetch,           \* the fetch issued last: what issued it and how
                         \* it ended (history)
    sync                 \* apis/sync: the data syncs started with the
                         \* download button and the loading messages shown

pageVars == <<timeframe, selectedRange, backtestResult, isLoadingBacktest,
              drawerVisible, backtestInflight, messages>>
loaderVars == <<isLoadingRef, isLoading, oldestTimestampRef, candlestickData,
                inflight, unhandledRejection>>
selectionVars == <<selectionStartRef, selectionEndRef, panZoomEnabled, overlay>>
envVars == <<mounted, tzOffset, modifierHeld>>
vars == <<envVars, pageVars, loaderVars, selectionVars, submits, lastFetch,
          sync>>

\* the bounds on unanswered backtest requests, on handleSubmit calls and on
\* error notifications
MaxBacktests == 1
MaxSubmits == 1
MaxMessages == 1

\* the bounds on clicks of the download button and on the status requests
\* of one sync
MaxSyncs == 2
MaxPolls == 2

\* the same bounds where the form is submitted again before an answer
MaxOverlap == 2
MaxResubmits == 2

\* the value of `visible' for a fetch that no viewport event issued
NoEvent == -2

\* no sync has been started and no loading message is on display
NoSync == [tasks |-> <<>>, loading |-> 0]

NoFetch == [result |-> "none", keep |-> TRUE, overlap |-> FALSE,
            visible |-> NoEvent]

\* the history of a fetch that is being issued; visible is the visible time
\* of the viewport event that issued it, remembered until the fetch ends
\* and beyond that if it ends with an empty response
Pending(keepPreviousData, visible) ==
    [result |-> "pending", keep |-> keepPreviousData, overlap |-> FALSE,
     visible |-> visible]

\* the history after a call of loadData by another caller than handleScroll
Issued(keepPreviousData) ==
    IF ~isLoadingRef THEN Pending(keepPreviousData, NoEvent) ELSE lastFetch

Init ==
    /\ mounted = FALSE
    /\ tzOffset \in TzOffsets
    /\ modifierHeld = FALSE
    /\ timeframe = "1m"
    /\ selectedRange = NullRange
    /\ backtestResult = NullResult
    /\ isLoadingBacktest = FALSE
    /\ drawerVisible = FALSE
    /\ backtestInflight = <<>>
    /\ messages = <<>>
    /\ isLoadingRef = FALSE
    /\ isLoading = FALSE
    /\ oldestTimestampRef = NullStamp
    /\ candlestickData = <<>>
    /\ inflight = <<>>
    /\ unhandledRejection = FALSE
    /\ selectionStartRef = NullTime
    /\ selectionEndRef = NullTime
    /\ panZoomEnabled = TRUE
    /\ overlay = NullRange
    /\ submits = 0
    /\ lastFetch = NoFetch
    /\ sync = NoSync

\* ------------------------------------------------------------------------
\* useChartData.loadData
\* ------------------------------------------------------------------------

Request(timestamp, itv, keepPreviousData) ==
    [end_time |-> timestamp, symbol |-> Symbol, limit |-> FetchLimit,
     interval |-> itv, keepPreviousData |-> keepPreviousData]

\* loadData up to its await: the guard, the flag and the request
LoadDataUnguarded(timestamp, itv, keepPreviousData) ==
    /\ isLoadingRef' = TRUE
    /\ isLoading' = TRUE
    /\ inflight' = Append(inflight, Request(timestamp, itv, keepPreviousData))
LoadData(timestamp, itv, keepPreviousData) ==
    IF ~isLoadingRef
    THEN /\ isLoadingRef' = TRUE
         /\ isLoading' = TRUE
         /\ inflight' = Append(inflight, Request(timestamp, itv, keepPreviousData))
    ELSE UNCHANGED <<isLoadingRef, isLoading, inflight>>

\* dayjs().format("YYYY-MM-DD HH:mm:ss")
Today == DayjsFormat(NowEpoch, tzOffset)

\* useChart.loadInitialData: loadData(today), keepPreviousData defaulted
LoadInitialData(itv) == LoadData(Today, itv, TRUE)

RemoveAt(s, i) == SubSeq(s, 1, i - 1) \o SubSeq(s, i + 1, Len(s))

\* what getHistoricalData resolves to for a request, by content version
ResponseFor(req, v) == PriceData(req.end_time, req.limit, v)

\* loadData after its await, the fetch having resolved with price_data
LoadDataResumeFlagInside(i, price_data) ==
    LET req == inflight[i]
        formattedData == FormattedData(price_data)
        previousData == IF req.keepPreviousData THEN candlestickData ELSE <<>>
    IN /\ inflight' = RemoveAt(inflight, i)
       /\ IF Len(price_data) > 0
          THEN /\ oldestTimestampRef' = price_data[1].timestamp
               /\ candlestickData' = MergedData(formattedData, previousData)
               /\ isLoadingRef' = FALSE
               /\ isLoading' = FALSE
          ELSE UNCHANGED <<oldestTimestampRef, candlestickData, isLoadingRef,
                           isLoading>>
       /\ UNCHANGED unhandledRejection
LoadDataResumeCursorNewest(i, price_data) ==
    LET req == inflight[i]
        formattedData == FormattedData(price_data)
        previousData == IF req.keepPreviousData THEN candlestickData ELSE <<>>
    IN /\ inflight' = RemoveAt(inflight, i)
       /\ IF Len(price_data) > 0
          THEN /\ oldestTimestampRef' = price_data[Len(price_data)].timestamp
               /\ candlestickData' = MergedData(formattedData, previousData)
          ELSE UNCHANGED <<oldestTimestampRef, candlestickData>>
       /\ isLoadingRef' = FALSE
       /\ isLoading' = FALSE
       /\ UNCHANGED unhandledRejection
LoadDataResumeCursorUnset(i, price_data) ==
    LET req == inflight[i]
        formattedData == FormattedData(price_data)
        previousData == IF req.keepPreviousData THEN candlestickData ELSE <<>>
    IN /\ inflight' = RemoveAt(inflight, i)
       /\ IF Len(price_data) > 0
          THEN /\ UNCHANGED oldestTimestampRef
               /\ candlestickData' = MergedData(formattedData, previousData)
          ELSE UNCHANGED <<oldestTimestampRef, candlestickData>>
       /\ isLoadingRef' = FALSE
       /\ isLoading' = FALSE
       /\ UNCHANGED unhandledRejection
LoadDataResume(i, price_data) ==
    LET req == inflight[i]
        formattedData == FormattedData(price_data)
        previousData == IF req.keepPreviousData THEN candlestickData ELSE <<>>
    IN /\ inflight' = RemoveAt(inflight, i)
       /\ IF Len(price_data) > 0
          THEN /\ oldestTimestampRef' = price_data[1].timestamp
               /\ candlestickData' = MergedData(formattedData, previousData)
          ELSE UNCHANGED <<oldestTimestampRef, candlestickData>>
       /\ isLoadingRef' = FALSE
       /\ isLoading' = FALSE
       /\ UNCHANGED unhandledRejection

\* the fetch resolves
FetchResolves(i, v) ==
    /\ i \in 1..Len(inflight)
    /\ inflight[i].end_time # InvalidDate
    /\ v \in Versions
    /\ LET price_data == ResponseFor(inflight[i], v)
       IN /\ LoadDataResume(i, price_data)
          /\ lastFetch' =
               [result |-> IF Len(price_data) > 0 THEN "data" ELSE "empty",
                keep |-> inflight[i].keepPreviousData,
                overlap |-> /\ inflight[i].keepPreviousData
                            /\ \E k \in 1..Len(price_data) :
                                 \E j \in 1..Len(candlestickData) :
                                   candlestickData[j].time =
                                     ParseUTC(price_data[k].timestamp),
                visible |-> IF Len(price_data) > 0 THEN NoEvent
                            ELSE lastFetch.visible]
    /\ UNCHANGED <<envVars, pageVars, selectionVars, submits>>
    /\ UNCHANGED sync

\* the fetch fails (transport failure, non-OK response, unparsable body):
\* getHistoricalData throws, loadData has no handler and ends there
FetchFailsRetrying(i) ==
    /\ i \in 1..Len(inflight)
    /\ inflight' = Append(RemoveAt(inflight, i), inflight[i])
    /\ unhandledRejection' = TRUE
    /\ UNCHANGED <<isLoadingRef, isLoading, oldestTimestampRef, candlestickData>>
    /\ lastFetch' = [result |-> "failed",
                     keep |-> inflight[i].keepPreviousData, overlap |-> FALSE,
                     visible |-> NoEvent]
    /\ UNCHANGED <<envVars, pageVars, selectionVars, submits>>
    /\ UNCHANGED sync
FetchFails(i) ==
    /\ i \in 1..Len(inflight)
    /\ inflight' = RemoveAt(inflight, i)
    /\ unhandledRejection' = TRUE
    /\ UNCHANGED <<isLoadingRef, isLoading, oldestTimestampRef, candlestickData>>
    /\ lastFetch' = [result |-> "failed",
                     keep |-> inflight[i].keepPreviousData, overlap |-> FALSE,
                     visible |-> NoEvent]
    /\ UNCHANGED <<envVars, pageVars, selectionVars, submits>>
    /\ UNCHANGED sync

\* ------------------------------------------------------------------------
\* useChartData.setupScrollHandler: handleScroll
\* ------------------------------------------------------------------------

\* JavaScript truthiness of a time or of a ref
Truthy(x) == x # NullTime /\ x # 0

\* loadedRange[0]?.time
OldestLoadedTime == IF Len(candlestickData) > 0 THEN candlestickData[1].time ELSE NullTime

\* the times the time scale can map a coordinate to
ChartTimes == {candlestickData[i].time : i \in 1..Len(candlestickData)}

\* the times under the pointer: the first and the last bar of the chart
PointerTimes ==
    IF candlestickData = <<>> THEN {}
    ELSE {candlestickData[1].time, candlestickData[Len(candlestickData)].time}

\* 1000 * 60, added to a time in seconds
ScrollThreshold == 1000 * 60

\* the condition under which handleScroll calls loadData
ScrollTriggersResolvedOnly(visibleTime) ==
    /\ Truthy(visibleTime)
    /\ Truthy(OldestLoadedTime)
    /\ visibleTime <= OldestLoadedTime + ScrollThreshold
    /\ oldestTimestampRef # NullStamp
ScrollTriggers(visibleTime) ==
    \/ ~Truthy(visibleTime)
    \/ /\ Truthy(OldestLoadedTime)
       /\ visibleTime <= OldestLoadedTime + ScrollThreshold
       /\ oldestTimestampRef # NullStamp

\* dayjs(oldestTimestampRef.current).subtract(1, "minute").format(...)
ScrollAnchorUTCFormat ==
    IF oldestTimestampRef = NullStamp THEN InvalidDate
    ELSE StampOf(DayjsParse(oldestTimestampRef, tzOffset) - 60)
ScrollAnchor ==
    IF oldestTimestampRef = NullStamp THEN InvalidDate
    ELSE DayjsFormat(DayjsParse(oldestTimestampRef, tzOffset) - 60, tzOffset)

\* a visible-logical-range-change event; param is null while the time scale
\* is empty, visibleTime is what coordinateToTime returns
HandleScroll(param, visibleTime) ==
    /\ mounted
    /\ param # Null => candlestickData # <<>>
    /\ visibleTime \in ChartTimes \cup {NullTime}
    /\ IF param = Null \/ isLoadingRef
       THEN UNCHANGED <<isLoadingRef, isLoading, inflight>>
       ELSE IF ScrollTriggers(visibleTime)
            THEN LoadData(ScrollAnchor, timeframe, TRUE)
            ELSE UNCHANGED <<isLoadingRef, isLoading, inflight>>
    /\ UNCHANGED <<oldestTimestampRef, candlestickData, unhandledRejection>>
    /\ lastFetch' = IF param # Null /\ ~isLoadingRef /\ ScrollTriggers(visibleTime)
                    THEN Pending(TRUE, visibleTime)
                    ELSE lastFetch
    /\ UNCHANGED submits
    /\ UNCHANGED <<envVars, pageVars, selectionVars>>
    /\ UNCHANGED sync

\* ------------------------------------------------------------------------
\* useChart: chart creation, selection
\* ------------------------------------------------------------------------

\* data.price_data.map(item => ({time: new Date(item.timestamp + "Z") / 1000, ...}))
ResultCandles(data) == FormattedData(data.price_data)

\* the effect that creates the chart and its candlestick series for `data'
CreateChart(data) ==
    /\ candlestickData' = IF data = NullResult THEN <<>> ELSE ResultCandles(data)
    /\ oldestTimestampRef' = IF data = NullResult THEN oldestTimestampRef
                             ELSE data.price_data[1].timestamp

\* useChart.clearOverlay (the overlay element exists once mounted)
ClearOverlayKeepingPanZoom ==
    /\ selectionStartRef' = NullTime
    /\ selectionEndRef' = NullTime
    /\ selectedRange' = NullRange
    /\ overlay' = NullRange
    /\ UNCHANGED panZoomEnabled
ClearOverlay ==
    /\ selectionStartRef' = NullTime
    /\ selectionEndRef' = NullTime
    /\ selectedRange' = NullRange
    /\ overlay' = NullRange
    /\ panZoomEnabled' = TRUE

\* subscribeClick: handleMouseDown
HandleMouseDownOverResult(time) ==
    /\ mounted
    /\ time \in PointerTimes \cup {NullTime}
    /\ IF /\ selectionStartRef = NullTime
          /\ Truthy(time)
          /\ modifierHeld
       THEN /\ selectionStartRef' = time
            /\ panZoomEnabled' = FALSE
       ELSE UNCHANGED <<selectionStartRef, panZoomEnabled>>
    /\ UNCHANGED <<selectionEndRef, overlay>>
    /\ UNCHANGED <<submits, lastFetch>>
    /\ UNCHANGED <<envVars, pageVars, loaderVars>>
    /\ UNCHANGED sync
HandleMouseDown(time) ==
    /\ mounted
    /\ time \in PointerTimes \cup {NullTime}
    /\ IF /\ selectionStartRef = NullTime
          /\ Truthy(time)
          /\ modifierHeld
          /\ backtestResult = NullResult
       THEN /\ selectionStartRef' = time
            /\ panZoomEnabled' = FALSE
       ELSE UNCHANGED <<selectionStartRef, panZoomEnabled>>
    /\ UNCHANGED <<selectionEndRef, overlay>>
    /\ UNCHANGED <<submits, lastFetch>>
    /\ UNCHANGED <<envVars, pageVars, loaderVars>>
    /\ UNCHANGED sync

\* the ends of the range for which timeToCoordinate can return null
RangeEnds == {"start", "end"}

\* subscribeCrosshairMove: handleMouseMove; unmapped holds the ends of the
\* new range for which timeToCoordinate returns no coordinate. The range is
\* published before the coordinates are asked for, and the overlay is drawn
\* only if both are there
HandleMouseMoveOnMappedOnly(time, unmapped) ==
    /\ mounted
    /\ time \in PointerTimes \cup {NullTime}
    /\ unmapped \in SUBSET RangeEnds
    /\ IF /\ Truthy(time)
          /\ Truthy(selectionStartRef)
          /\ modifierHeld
          /\ backtestResult = NullResult
       THEN /\ selectionEndRef' = time
            /\ IF unmapped = {}
               THEN /\ selectedRange' = [start |-> Min(selectionStartRef, time),
                                         end |-> IF selectionStartRef > time
                                                 THEN selectionStartRef ELSE time]
                    /\ overlay' = selectedRange'
               ELSE UNCHANGED <<selectedRange, overlay>>
       ELSE UNCHANGED <<selectionEndRef, selectedRange, overlay>>
    /\ UNCHANGED <<selectionStartRef, panZoomEnabled>>
    /\ UNCHANGED <<submits, lastFetch>>
    /\ UNCHANGED <<envVars, loaderVars, timeframe, backtestResult,
                   isLoadingBacktest, drawerVisible, backtestInflight, messages>>
    /\ UNCHANGED sync
HandleMouseMoveOn(time, unmapped) ==
    /\ mounted
    /\ time \in PointerTimes \cup {NullTime}
    /\ unmapped \in SUBSET RangeEnds
    /\ IF /\ Truthy(time)
          /\ Truthy(selectionStartRef)
          /\ modifierHeld
          /\ backtestResult = NullResult
       THEN /\ selectionEndRef' = time
            /\ selectedRange' = [start |-> Min(selectionStartRef, time),
                                 end |-> IF selectionStartRef > time
                                         THEN selectionStartRef ELSE time]
            /\ overlay' = IF unmapped = {} THEN selectedRange' ELSE overlay
       ELSE UNCHANGED <<selectionEndRef, selectedRange, overlay>>
    /\ UNCHANGED <<selectionStartRef, panZoomEnabled>>
    /\ UNCHANGED <<submits, lastFetch>>
    /\ UNCHANGED <<envVars, loaderVars, timeframe, backtestResult,
                   isLoadingBacktest, drawerVisible, backtestInflight, messages>>
    /\ UNCHANGED sync

\* handleMouseMove on a surface that maps both ends of the range
HandleMouseMoveUnordered(time) ==
    /\ mounted
    /\ time \in PointerTimes \cup {NullTime}
    /\ IF /\ Truthy(time)
          /\ Truthy(selectionStartRef)
          /\ modifierHeld
          /\ backtestResult = NullResult
       THEN /\ selectionEndRef' = time
            /\ selectedRange' = [start |-> selectionStartRef, end |-> time]
            /\ overlay' = selectedRange'
       ELSE UNCHANGED <<selectionEndRef, selectedRange, overlay>>
    /\ UNCHANGED <<selectionStartRef, panZoomEnabled>>
    /\ UNCHANGED <<submits, lastFetch>>
    /\ UNCHANGED <<envVars, loaderVars, timeframe, backtestResult,
                   isLoadingBacktest, drawerVisible, backtestInflight, messages>>
    /\ UNCHANGED sync
HandleMouseMoveAnyKey(time) ==
    /\ mounted
    /\ time \in PointerTimes \cup {NullTime}
    /\ IF /\ Truthy(time)
          /\ Truthy(selectionStartRef)
          /\ backtestResult = NullResult
       THEN /\ selectionEndRef' = time
            /\ selectedRange' = [start |-> Min(selectionStartRef, time),
                                 end |-> IF selectionStartRef > time
                                         THEN selectionStartRef ELSE time]
            /\ overlay' = selectedRange'
       ELSE UNCHANGED <<selectionEndRef, selectedRange, overlay>>
    /\ UNCHANGED <<selectionStartRef, panZoomEnabled>>
    /\ UNCHANGED <<submits, lastFetch>>
    /\ UNCHANGED <<envVars, loaderVars, timeframe, backtestResult,
                   isLoadingBacktest, drawerVisible, backtestInflight, messages>>
    /\ UNCHANGED sync
HandleMouseMoveOverResult(time) ==
    /\ mounted
    /\ time \in PointerTimes \cup {NullTime}
    /\ IF /\ Truthy(time)
          /\ Truthy(selectionStartRef)
          /\ modifierHeld
       THEN /\ selectionEndRef' = time
            /\ selectedRange' = [start |-> Min(selectionStartRef, time),
                                 end |-> IF selectionStartRef > time
                                         THEN selectionStartRef ELSE time]
            /\ overlay' = selectedRange'
       ELSE UNCHANGED <<selectionEndRef, selectedRange, overlay>>
    /\ UNCHANGED <<selectionStartRef, panZoomEnabled>>
    /\ UNCHANGED <<submits, lastFetch>>
    /\ UNCHANGED <<envVars, loaderVars, timeframe, backtestResult,
                   isLoadingBacktest, drawerVisible, backtestInflight, messages>>
    /\ UNCHANGED sync
HandleMouseMove(time) == HandleMouseMoveOn(time, {})

Keys == {"modifier", "other"}

\* window keydown: handleKeyDown; e.ctrlKey || e.metaKey is the state of the
\* modifier once the key is down
HandleKeyDownReloading(key) ==
    /\ mounted
    /\ key \in Keys
    /\ modifierHeld' = (modifierHeld \/ key = "modifier")
    /\ IF modifierHeld' /\ Truthy(selectionStartRef) /\ Truthy(selectionEndRef)
       THEN ClearOverlay /\ LoadInitialData(timeframe)
       ELSE UNCHANGED <<selectionStartRef, selectionEndRef, selectedRange,
                        panZoomEnabled, overlay, isLoadingRef, isLoading,
                        inflight>>
    /\ UNCHANGED <<submits, lastFetch>>
    /\ UNCHANGED <<mounted, tzOffset, oldestTimestampRef, candlestickData,
                   unhandledRejection, timeframe, backtestResult,
                   isLoadingBacktest, drawerVisible, backtestInflight, messages>>
    /\ UNCHANGED sync
HandleKeyDown(key) ==
    /\ mounted
    /\ key \in Keys
    /\ modifierHeld' = (modifierHeld \/ key = "modifier")
    /\ IF modifierHeld' /\ Truthy(selectionStartRef) /\ Truthy(selectionEndRef)
       THEN ClearOverlay
       ELSE UNCHANGED <<selectionStartRef, selectionEndRef, selectedRange,
                        panZoomEnabled, overlay>>
    /\ UNCHANGED <<submits, lastFetch>>
    /\ UNCHANGED <<mounted, tzOffset, loaderVars, timeframe, backtestResult,
                   isLoadingBacktest, drawerVisible, backtestInflight, messages>>
    /\ UNCHANGED sync

\* window keyup: handleKeyUp
HandleKeyUpClearing(key) ==
    /\ mounted
    /\ key \in Keys
    /\ key = "modifier" => modifierHeld
    /\ modifierHeld' = IF key = "modifier" THEN FALSE ELSE modifierHeld
    /\ ClearOverlay
    /\ UNCHANGED <<submits, lastFetch>>
    /\ UNCHANGED <<mounted, tzOffset, loaderVars, timeframe, backtestResult,
                   isLoadingBacktest, drawerVisible, backtestInflight, messages>>
    /\ UNCHANGED sync
HandleKeyUp(key) ==
    /\ mounted
    /\ key \in Keys
    /\ key = "modifier" => modifierHeld
    /\ modifierHeld' = IF key = "modifier" THEN FALSE ELSE modifierHeld
    /\ selectionStartRef' = NullTime
    /\ selectionEndRef' = NullTime
    /\ UNCHANGED <<panZoomEnabled, overlay>>
    /\ UNCHANGED <<submits, lastFetch>>
    /\ UNCHANGED <<mounted, tzOffset, loaderVars, pageVars>>
    /\ UNCHANGED sync

\* ------------------------------------------------------------------------
\* BacktestChart: mount, timeframe, clear, backtest
\* ------------------------------------------------------------------------

\* first render: the effects run in order, loadInitialData, chart creation
\* (no data yet), selection subscriptions, clearOverlay
Mount ==
    /\ ~mounted
    /\ mounted' = TRUE
    /\ LoadInitialData(timeframe)
    /\ CreateChart(backtestResult)
    /\ ClearOverlay
    /\ UNCHANGED unhandledRejection
    /\ lastFetch' = Issued(TRUE)
    /\ UNCHANGED submits
    /\ UNCHANGED <<tzOffset, modifierHeld, timeframe, backtestResult,
                   isLoadingBacktest, drawerVisible, backtestInflight, messages>>
    /\ UNCHANGED sync

\* Select onChange={setTimeframe}: loadData and setupScrollHandler are new,
\* so the initial load runs again, the chart is created anew and the
\* [timeframe] effect clears the overlay
SetTimeframe(itv) ==
    /\ mounted
    /\ itv \in IntervalChoices \ {timeframe}
    /\ timeframe' = itv
    /\ LoadInitialData(itv)
    /\ CreateChart(backtestResult)
    /\ ClearOverlay
    /\ UNCHANGED unhandledRejection
    /\ lastFetch' = Issued(TRUE)
    /\ UNCHANGED submits
    /\ UNCHANGED <<envVars, backtestResult, isLoadingBacktest, drawerVisible,
                   backtestInflight, messages>>
    /\ UNCHANGED sync

\* the clear button, rendered while a range is selected: handleClear
HandleClear ==
    /\ mounted
    /\ selectedRange # NullRange
    /\ backtestResult' = NullResult
    /\ ClearOverlay
    /\ LoadInitialData(timeframe)
    /\ IF backtestResult # NullResult
       THEN CreateChart(NullResult)
       ELSE UNCHANGED <<candlestickData, oldestTimestampRef>>
    /\ UNCHANGED unhandledRejection
    /\ lastFetch' = Issued(TRUE)
    /\ UNCHANGED submits
    /\ UNCHANGED <<envVars, timeframe, isLoadingBacktest, drawerVisible,
                   backtestInflight, messages>>
    /\ UNCHANGED sync

\* the Run button, rendered while a range is selected
OpenDrawer ==
    /\ mounted
    /\ selectedRange # NullRange
    /\ ~drawerVisible
    /\ drawerVisible' = TRUE
    /\ UNCHANGED <<submits, lastFetch>>
    /\ UNCHANGED <<envVars, loaderVars, selectionVars, timeframe, selectedRange,
                   backtestResult, isLoadingBacktest, backtestInflight, messages>>
    /\ UNCHANGED sync

\* Drawer onClose
CloseDrawer ==
    /\ mounted
    /\ drawerVisible
    /\ drawerVisible' = FALSE
    /\ UNCHANGED <<submits, lastFetch>>
    /\ UNCHANGED <<envVars, loaderVars, selectionVars, timeframe, selectedRange,
                   backtestResult, isLoadingBacktest, backtestInflight, messages>>
    /\ UNCHANGED sync

\* new Date((selectedRange?.start || 0) * 1000).toISOString()
RangeBound(t) == StampOf(IF Truthy(t) THEN t ELSE 0)

\* handleSubmit up to its await (the form lives in the drawer)
HandleSubmitWithin(maxInflight, maxSubmits) ==
    /\ mounted
    /\ drawerVisible
    /\ Len(backtestInflight) < maxInflight
    /\ submits < maxSubmits
    /\ submits' = submits + 1
    /\ isLoadingBacktest' = TRUE
    /\ backtestInflight' = Append(backtestInflight,
          [startTime |-> RangeBound(selectedRange.start),
           endTime |-> RangeBound(selectedRange.end)])
    /\ UNCHANGED lastFetch
    /\ UNCHANGED <<envVars, loaderVars, selectionVars, timeframe, selectedRange,
                   backtestResult, drawerVisible, messages>>
    /\ UNCHANGED sync

HandleSubmit == HandleSubmitWithin(MaxBacktests, MaxSubmits)

\* the backtest collaborator: the stored candles of the requested range
BacktestPriceData(req) ==
    LET stamps == AscendingStamps({ts \in StoreStamps :
                      /\ ParseUTC(req.startTime) <= ParseUTC(ts)
                      /\ ParseUTC(ts) <= ParseUTC(req.endTime)})
    IN [i \in 1..Len(stamps) |-> CandleAt(stamps[i], 1)]

\* handleSubmit after its await, response.ok: the result is stored, the
\* drawer closes, the chart effect creates the chart anew with the data and
\* the selection effect hides the overlay
BacktestResolves(i) ==
    /\ i \in 1..Len(backtestInflight)
    /\ LET data == [present |-> TRUE, price_data |-> BacktestPriceData(backtestInflight[i])]
       IN /\ Len(data.price_data) > 0
          /\ backtestResult' = data
          /\ CreateChart(data)
    /\ backtestInflight' = RemoveAt(backtestInflight, i)
    /\ drawerVisible' = FALSE
    /\ isLoadingBacktest' = FALSE
    /\ panZoomEnabled' = TRUE
    /\ overlay' = NullRange
    /\ UNCHANGED <<submits, lastFetch>>
    /\ UNCHANGED <<envVars, timeframe, selectedRange, messages, isLoadingRef,
                   isLoading, inflight, unhandledRejection, selectionStartRef,
                   selectionEndRef>>
    /\ UNCHANGED sync

\* how a backtest request can end without a result: a non-2xx response
\* whose JSON body has a detail, one whose body has none, one whose body is
\* not JSON, and a rejected fetch
FailureOutcomes == {"detail", "no detail", "bad body", "network"}

\* the text handleSubmit hands to message.error
ErrorTextGeneric(outcome) == "Network error occurred"
ErrorText(outcome) ==
    CASE outcome = "detail" -> "detail"
      [] outcome = "no detail" -> "Failed to run backtest"
      [] outcome = "bad body" -> "Network error occurred"
      [] outcome = "network" -> "Network error occurred"

\* handleSubmit after its await, response not ok or fetch rejected:
\* message.error, and the finally block clears the flag
BacktestFails(i, outcome) ==
    /\ i \in 1..Len(backtestInflight)
    /\ outcome \in FailureOutcomes
    /\ Len(messages) < MaxMessages
    /\ messages' = Append(messages, ErrorText(outcome))
    /\ backtestInflight' = RemoveAt(backtestInflight, i)
    /\ isLoadingBacktest' = FALSE
    /\ UNCHANGED <<submits, lastFetch>>
    /\ UNCHANGED <<envVars, loaderVars, selectionVars, timeframe, selectedRange,
                   backtestResult, drawerVisible>>
    /\ UNCHANGED sync

\* ------------------------------------------------------------------------
\* apis/sync: downloadLatestData
\* ------------------------------------------------------------------------

\* one call of downloadLatestData: where it is, how many status requests it
\* has sent, and how many terminal notifications (message.success or
\* message.error) it has raised
Task(state, polls, notified) ==
    [state |-> state, polls |-> polls, notified |-> notified]

SetTask(k, task) == [sync EXCEPT !.tasks[k] = task]

\* onClick={downloadLatestData}: the POST /api/download-latest is sent
DownloadLatestData ==
    /\ mounted
    /\ Len(sync.tasks) < MaxSyncs
    /\ sync' = [sync EXCEPT !.tasks = Append(@, Task("starting", 0, 0))]
    /\ UNCHANGED <<envVars, pageVars, loaderVars, selectionVars, submits,
                   lastFetch>>

\* the POST is answered and its body parsed: message.loading, and
\* checkStatus() sends the first status request without being awaited
StartResolves(k) ==
    /\ k \in 1..Len(sync.tasks)
    /\ sync.tasks[k].state = "starting"
    /\ sync' = [sync EXCEPT !.tasks[k] = Task("polling", 1, 0),
                            !.loading = @ + 1]
    /\ UNCHANGED <<envVars, pageVars, loaderVars, selectionVars, submits,
                   lastFetch>>

\* the POST is rejected or its body is not JSON: the catch block
StartFails(k) ==
    /\ k \in 1..Len(sync.tasks)
    /\ sync.tasks[k].state = "starting"
    /\ sync' = SetTask(k, Task("not started", 0, 1))
    /\ UNCHANGED <<envVars, pageVars, loaderVars, selectionVars, submits,
                   lastFetch>>

\* what a status response reports
DownloadStates == {"running", "completed", "failed"}

\* checkStatus after its awaits; message.destroy() removes every message on
\* display
StatusResolves(k, state) ==
    /\ k \in 1..Len(sync.tasks)
    /\ sync.tasks[k].state = "polling"
    /\ state \in DownloadStates
    /\ sync' =
         CASE state = "completed" ->
                [sync EXCEPT !.tasks[k] = Task("completed", @.polls, @.notified + 1),
                             !.loading = 0]
           [] state = "failed" ->
                [sync EXCEPT !.tasks[k] = Task("failed", @.polls, @.notified + 1)]
           [] state = "running" ->
                [sync EXCEPT !.tasks[k] = Task("waiting", @.polls, @.notified)]
    /\ UNCHANGED <<envVars, pageVars, loaderVars, selectionVars, submits,
                   lastFetch>>

\* a status request is rejected or its body is not JSON: checkStatus throws
\* outside the try block of downloadLatestData (it was not awaited, or runs
\* from the timer), sets no timer and raises no message
StatusFails(k) ==
    /\ k \in 1..Len(sync.tasks)
    /\ sync.tasks[k].state = "polling"
    /\ sync' = SetTask(k, Task("abandoned", sync.tasks[k].polls,
                               sync.tasks[k].notified))
    /\ UNCHANGED <<envVars, pageVars, loaderVars, selectionVars, submits,
                   lastFetch>>

\* setTimeout(checkStatus, 2000) fires: the next status request is sent
TimerFires(k) ==
    /\ k \in 1..Len(sync.tasks)
    /\ sync.tasks[k].state = "waiting"
    /\ sync.tasks[k].polls < MaxPolls
    /\ sync' = SetTask(k, Task("polling", sync.tasks[k].polls + 1,
                               sync.tasks[k].notified))
    /\ UNCHANGED <<envVars, pageVars, loaderVars, selectionVars, submits,
                   lastFetch>>

\* ------------------------------------------------------------------------
\* Specification
\* ------------------------------------------------------------------------

\* the modifier is released while the window does not have the keyboard
\* focus (the user has switched to another application with the key down):
\* the keyup goes elsewhere, the listeners on window hear nothing, and the
\* next pointer event reports metaKey and ctrlKey false
ModifierReleasedUnfocused ==
    /\ mounted
    /\ modifierHeld
    /\ modifierHeld' = FALSE
    /\ UNCHANGED <<mounted, tzOffset, loaderVars, pageVars, selectionVars>>
    /\ UNCHANGED <<submits, lastFetch>>
    /\ UNCHANGED sync

\* the page is examined with the content of the forming candle fixed; how
\* contents merge is examined with the hook on its own
PageVersions == {1}

Next ==
    \/ Mount
    \/ \E itv \in IntervalChoices : SetTimeframe(itv)
    \/ HandleClear
    \/ OpenDrawer
    \/ CloseDrawer
    \/ HandleSubmit
    \/ \E i \in 1..MaxBacktests : BacktestResolves(i)
    \/ \E i \in 1..MaxBacktests, outcome \in FailureOutcomes :
          BacktestFails(i, outcome)
    \/ \E i \in 1..Len(inflight), v \in PageVersions : FetchResolves(i, v)
    \/ \E i \in 1..Len(inflight) : FetchFails(i)
    \/ \E param \in {Null, "range"}, visibleTime \in ChartTimes \cup {NullTime} :
          HandleScroll(param, visibleTime)
    \/ \E time \in PointerTimes \cup {NullTime} : HandleMouseDown(time)
    \/ \E time \in PointerTimes \cup {NullTime} : HandleMouseMove(time)
    \/ \E key \in Keys : HandleKeyDown(key)
    \/ \E key \in Keys : HandleKeyUp(key)

Spec == Init /\ [][Next]_vars

\* the chart without the backtest: the loads and the viewport events on one
\* side, the selection gesture on the other, with the controls that reload
NextGesture ==
    \/ Mount
    \/ \E itv \in IntervalChoices : SetTimeframe(itv)
    \/ HandleClear
    \/ \E i \in 1..Len(inflight), v \in PageVersions : FetchResolves(i, v)
    \/ \E i \in 1..Len(inflight) : FetchFails(i)
    \/ \E param \in {Null, "range"}, visibleTime \in ChartTimes \cup {NullTime} :
          HandleScroll(param, visibleTime)
    \/ \E time \in PointerTimes \cup {NullTime} : HandleMouseDown(time)
    \/ \E time \in PointerTimes \cup {NullTime} : HandleMouseMove(time)
    \/ \E key \in Keys : HandleKeyDown(key)
    \/ \E key \in Keys : HandleKeyUp(key)

SpecGesture == Init /\ [][NextGesture]_vars

\* the page in a window that can lose the keyboard focus: every step of the
\* page, and the release of the modifier that the page does not hear
NextFocusLost ==
    \/ Next
    \/ ModifierReleasedUnfocused

SpecFocusLost == Init /\ [][NextFocusLost]_vars

\* the selection gesture on a rendering surface that, during a resize, has
\* no coordinate for one or both ends of the range: every step of the page
\* but the viewport events (the series stays the one of the initial load),
\* with the pointer-moves that meet such a surface
NextSurface ==
    \/ Mount
    \/ \E i \in 1..Len(inflight), v \in PageVersions : FetchResolves(i, v)
    \/ \E time \in PointerTimes \cup {NullTime} : HandleMouseDown(time)
    \/ \E time \in PointerTimes \cup {NullTime},
          unmapped \in SUBSET RangeEnds : HandleMouseMoveOn(time, unmapped)
    \/ \E key \in Keys : HandleKeyDown(key)
    \/ \E key \in Keys : HandleKeyUp(key)
    \/ \E itv \in IntervalChoices : SetTimeframe(itv)
    \/ HandleClear
    \/ OpenDrawer
    \/ CloseDrawer
    \/ HandleSubmit
    \/ \E i \in 1..MaxBacktests : BacktestResolves(i)
    \/ \E i \in 1..MaxBacktests, outcome \in FailureOutcomes :
          BacktestFails(i, outcome)
    \/ \E i \in 1..Len(inflight) : FetchFails(i)

SpecSurface == Init /\ [][NextSurface]_vars

\* the backtest form submitted more than once: the drawer stays open until a
\* result arrives and the spinner does not cover the form, so a second
\* submit can follow the first before any answer. The steps are the mount
\* and its load, the selection gesture, the drawer, the form and the
\* answers of the backtest collaborator
NextForm ==
    \/ Mount
    \/ \E i \in 1..Len(inflight), v \in PageVersions : FetchResolves(i, v)
    \/ \E time \in PointerTimes \cup {NullTime} : HandleMouseDown(time)
    \/ \E time \in PointerTimes \cup {NullTime} : HandleMouseMove(time)
    \/ \E key \in Keys : HandleKeyDown(key)
    \/ \E key \in Keys : HandleKeyUp(key)
    \/ HandleClear
    \/ OpenDrawer
    \/ CloseDrawer
    \/ HandleSubmitWithin(MaxOverlap, MaxResubmits)
    \/ \E i \in 1..MaxOverlap : BacktestResolves(i)
    \/ \E i \in 1..MaxOverlap, outcome \in FailureOutcomes :
          BacktestFails(i, outcome)

SpecForm == Init /\ [][NextForm]_vars

\* the freshly mounted page and its download button: the page is mounted,
\* its interval is chosen and its loads are answered while data syncs are
\* started, polled and answered; no candle has been pointed at yet
NextSync ==
    \/ Mount
    \/ \E itv \in IntervalChoices : SetTimeframe(itv)
    \/ \E i \in 1..Len(inflight), v \in PageVersions : FetchResolves(i, v)
    \/ \E i \in 1..Len(inflight) : FetchFails(i)
    \/ DownloadLatestData
    \/ \E k \in 1..MaxSyncs : StartResolves(k)
    \/ \E k \in 1..MaxSyncs : StartFails(k)
    \/ \E k \in 1..MaxSyncs, state \in DownloadStates : StatusResolves(k, state)
    \/ \E k \in 1..MaxSyncs : StatusFails(k)
    \/ \E k \in 1..MaxSyncs : TimerFires(k)

SpecSync == Init /\ [][NextSync]_vars

\* ------------------------------------------------------------------------
\* The hook useChartData on its own: a host that has created the series
\* calls the returned loadData with any anchor and either keepPreviousData,
\* renders it with any interval and forwards the range events of its chart
\* ------------------------------------------------------------------------

\* the anchors the host passes
AnchorChoices == StoreStamps \cup {Today}

\* loadData(timestamp, keepPreviousData) called by the host
CallLoadData(timestamp, keepPreviousData) ==
    /\ mounted
    /\ LoadData(timestamp, timeframe, keepPreviousData)
    /\ UNCHANGED <<oldestTimestampRef, candlestickData, unhandledRejection>>
    /\ lastFetch' = Issued(keepPreviousData)
    /\ UNCHANGED <<envVars, pageVars, selectionVars, submits>>
    /\ UNCHANGED sync

\* the host renders the hook with another interval: loadData and the
\* scroll handler are created anew, the refs and the series stay
SetInterval(itv) ==
    /\ mounted
    /\ itv \in IntervalChoices \ {timeframe}
    /\ timeframe' = itv
    /\ UNCHANGED <<envVars, loaderVars, selectionVars, submits, lastFetch,
                   selectedRange, backtestResult, isLoadingBacktest,
                   drawerVisible, backtestInflight, messages>>
    /\ UNCHANGED sync

InitHook ==
    /\ mounted = TRUE
    /\ tzOffset \in TzOffsets
    /\ modifierHeld = FALSE
    /\ timeframe = "1m"
    /\ selectedRange = NullRange
    /\ backtestResult = NullResult
    /\ isLoadingBacktest = FALSE
    /\ drawerVisible = FALSE
    /\ backtestInflight = <<>>
    /\ messages = <<>>
    /\ isLoadingRef = FALSE
    /\ isLoading = FALSE
    /\ oldestTimestampRef = NullStamp
    /\ candlestickData = <<>>
    /\ inflight = <<>>
    /\ unhandledRejection = FALSE
    /\ selectionStartRef = NullTime
    /\ selectionEndRef = NullTime
    /\ panZoomEnabled = TRUE
    /\ overlay = NullRange
    /\ submits = 0
    /\ lastFetch = NoFetch
    /\ sync = NoSync

NextHook ==
    \/ \E timestamp \in AnchorChoices, keepPreviousData \in BOOLEAN :
          CallLoadData(timestamp, keepPreviousData)
    \/ \E itv \in IntervalChoices : SetInterval(itv)
    \/ \E i \in 1..Len(inflight), v \in Versions : FetchResolves(i, v)
    \/ \E i \in 1..Len(inflight) : FetchFails(i)
    \/ \E param \in {Null, "range"}, visibleTime \in ChartTimes \cup {NullTime} :
          HandleScroll(param, visibleTime)

SpecHook == InitHook /\ [][NextHook]_vars

\* ------------------------------------------------------------------------
\* Properties
\* ------------------------------------------------------------------------

Times(data) == {data[k].time : k \in 1..Len(data)}

BatchTimes(price_data) ==
    {ParseUTC(price_data[k].timestamp) : k \in 1..Len(price_data)}

\* the step is handleScroll for a resolved range and it issued a request
ScrollIssued(visibleTime) ==
    /\ HandleScroll("range", visibleTime)
    /\ Len(inflight') = Len(inflight) + 1

\* the width of one candle of an interval, in seconds
IntervalSeconds(itv) ==
    CASE itv = "1m" -> 60
      [] itv = "5m" -> 5 * 60
      [] itv = "15m" -> 15 * 60
      [] itv = "1h" -> 60 * 60
      [] itv = "4h" -> 4 * 60 * 60
      [] itv = "1d" -> SecondsPerDay

\* C1: under every interleaving of the mount load, reloads, interval changes
\* and viewport events with fetch completions, at most one historical-data
\* request is in flight.
C1_AtMostOneInFlight == Len(inflight) <= 1

\* a reload or a viewport event found a loaded chart and its fetch is in flight
C1_Witness ==
    /\ Len(inflight) = 1
    /\ isLoadingRef
    /\ candlestickData # <<>>

\* C2: after any sequence of completed loadData calls, with any anchors and
\* either keepPreviousData, the series is strictly ascending by time (so no
\* two candles share a time).
C2_StrictlyAscending ==
    \A k \in 1..(Len(candlestickData) - 1) :
        candlestickData[k].time < candlestickData[k + 1].time

\* a batch that overlapped the series was merged into it
C2_Witness ==
    /\ lastFetch.result = "data"
    /\ lastFetch.overlap
    /\ Len(candlestickData) >= 3

\* C3: when the fetch of loadData fails, the loading flag is cleared (so a
\* later viewport event or reload can fetch again).
C3_FailureClearsFlag ==
    [][\A i \in 1..Len(inflight) :
          FetchFails(i) => (~isLoadingRef' /\ ~isLoading')]_vars

\* C4: the loading flag is true if and only if a fetch has been issued and
\* has not yet completed.
C4_FlagIffInFlight ==
    /\ isLoadingRef <=> (inflight # <<>>)
    /\ isLoading <=> (inflight # <<>>)

\* C5: whenever the series is non-empty and no fetch is in flight, the load
\* cursor is the time of the earliest candle of the series.
C5_CursorIsOldest ==
    (candlestickData # <<>> /\ inflight = <<>>) =>
        /\ oldestTimestampRef # NullStamp
        /\ ParseUTC(oldestTimestampRef) = candlestickData[1].time

\* C6: with the flag clear and a series whose oldest time is T, a viewport
\* event that resolves to the visible time v issues exactly one fetch when
\* v <= T + 60 seconds and none when v > T + 60 seconds.
C6_BoundaryTrigger ==
    [][\A v \in ChartTimes :
          (HandleScroll("range", v) /\ ~isLoadingRef) =>
              IF v <= OldestLoadedTime + 60
              THEN Len(inflight') = Len(inflight) + 1
              ELSE inflight' = inflight]_vars

C8_TimesAreUnion ==
    [][\A i \in 1..Len(inflight), v \in Versions :
          (FetchResolves(i, v) /\ Len(ResponseFor(inflight[i], v)) > 0) =>
              Times(candlestickData') =
                  BatchTimes(ResponseFor(inflight[i], v)) \cup
                  (IF inflight[i].keepPreviousData
                   THEN Times(candlestickData) ELSE {})]_vars

\* a batch was merged into a series that held other candles as well
C8_Witness ==
    /\ lastFetch.result = "data"
    /\ lastFetch.keep
    /\ ~lastFetch.overlap
    /\ Len(candlestickData) > MaxBatch

\* C9: merging the batch that was just merged a second time yields the very
\* same series (times, contents and order).
C9_MergeIdempotent ==
    [][\A i \in 1..Len(inflight), v \in Versions :
          (FetchResolves(i, v) /\ Len(ResponseFor(inflight[i], v)) > 0) =>
              MergedData(FormattedData(ResponseFor(inflight[i], v)),
                         candlestickData') = candlestickData']_vars

\* a batch was merged that shared a time with the series
C9_Witness ==
    /\ lastFetch.result = "data"
    /\ lastFetch.keep
    /\ lastFetch.overlap

\* C10: when a fetch resolves with an empty price_data, the series and the
\* load cursor stay as they are, the loading flag is false again and no
\* error is raised.
C10_EmptyResponse ==
    [][\A i \in 1..Len(inflight), v \in Versions :
          (FetchResolves(i, v) /\ Len(ResponseFor(inflight[i], v)) = 0) =>
              /\ candlestickData' = candlestickData
              /\ oldestTimestampRef' = oldestTimestampRef
              /\ ~isLoadingRef'
              /\ ~isLoading'
              /\ unhandledRejection' = unhandledRejection]_vars

\* the backend had nothing older than the anchor of a backward fetch
C10_Witness ==
    /\ lastFetch.result = "empty"
    /\ ~isLoadingRef
    /\ ~isLoading
    /\ candlestickData # <<>>
    /\ ~unhandledRejection

C12_DroppedWhileLoading ==
    [][/\ (/\ isLoadingRef
           /\ \/ \E param \in {Null, "range"}, v \in ChartTimes \cup {NullTime} :
                    HandleScroll(param, v)
              \/ \E timestamp \in AnchorChoices, keepPreviousData \in BOOLEAN :
                    CallLoadData(timestamp, keepPreviousData))
          => UNCHANGED <<inflight, candlestickData, oldestTimestampRef,
                         isLoadingRef, isLoading>>
       /\ (isLoadingRef /\ ~isLoadingRef') => inflight' = <<>>]_vars

\* a fetch issued by a viewport event is unanswered while the chart shows
\* candles, so that further viewport events and calls arrive under the flag
C12_Witness ==
    /\ isLoadingRef
    /\ isLoading
    /\ Len(inflight) = 1
    /\ lastFetch.result = "pending"
    /\ lastFetch.visible # NoEvent
    /\ Len(candlestickData) >= 2

\* the earliest timestamp of a non-empty batch
MinStamp(price_data) ==
    CHOOSE ts \in {price_data[k].timestamp : k \in 1..Len(price_data)} :
        \A k \in 1..Len(price_data) : ParseUTC(ts) <= ParseUTC(price_data[k].timestamp)

\* C13: the mount issues exactly one fetch, anchored at now, with limit 1000
\* and the active interval; when that fetch (the one answered while the
\* cursor is still null) returns n candles (of distinct times) the series
\* holds exactly those n candles and the load cursor is the earliest
\* returned timestamp.
C13_ColdStart ==
    [][/\ Mount => inflight' = <<Request(Today, timeframe, TRUE)>>
       /\ \A i \in 1..Len(inflight), v \in Versions :
            (oldestTimestampRef = NullStamp /\ FetchResolves(i, v)) =>
                LET price_data == ResponseFor(inflight[i], v)
                IN /\ inflight[i].limit = 1000
                   /\ Len(candlestickData') = Len(price_data)
                   /\ Times(candlestickData') = BatchTimes(price_data)
                   /\ Len(price_data) > 0 =>
                        oldestTimestampRef' = MinStamp(price_data)]_vars

\* the fetch of the mount has filled the empty series with its batch
C13_Witness ==
    /\ mounted
    /\ lastFetch.result = "data"
    /\ lastFetch.keep
    /\ ~lastFetch.overlap
    /\ timeframe = "1m"
    /\ Len(candlestickData) >= 2
    /\ Len(candlestickData) <= MaxBatch
    /\ oldestTimestampRef # NullStamp
    /\ ParseUTC(oldestTimestampRef) = candlestickData[1].time

\* C14: when the fetch of a forced reload (loadInitialData: the fetch last
\* issued, and not by a viewport event) completes with a non-empty batch,
\* the series holds exactly the candles of that batch.
C14_ReloadReplaces ==
    [][\A i \in 1..Len(inflight), v \in Versions :
          (/\ FetchResolves(i, v)
           /\ lastFetch.result = "pending"
           /\ lastFetch.visible = NoEvent
           /\ Len(ResponseFor(inflight[i], v)) > 0) =>
              candlestickData' = FormattedData(ResponseFor(inflight[i], v))]_vars

\* C15: a failed historical-data fetch is handled where it happens: no
\* promise of loadData, and so none of handleScroll or of the mount or reload
\* call, is ever rejected.
C15_FailureHandledLocally == ~unhandledRejection

\* C16: the candle series and the load cursor are changed only by loadData
\* (the continuation of a fetch that resolved); no other step changes them.
C16_LoaderOwnsSeries ==
    [][(candlestickData' # candlestickData \/
        oldestTimestampRef' # oldestTimestampRef) =>
          \E i \in 1..Len(inflight), v \in Versions : FetchResolves(i, v)]_vars

\* the step is one of the selection handlers of useChart
SelectionEvent ==
    \/ \E time \in PointerTimes \cup {NullTime} : HandleMouseDown(time)
    \/ \E time \in PointerTimes \cup {NullTime} : HandleMouseMove(time)
    \/ \E key \in Keys : HandleKeyDown(key)
    \/ \E key \in Keys : HandleKeyUp(key)

\* the step is a viewport event, which may issue a fetch, or the completion
\* of a fetch
FetchEvent ==
    \/ \E param \in {Null, "range"}, v \in ChartTimes \cup {NullTime} :
          HandleScroll(param, v)
    \/ \E i \in 1..Len(inflight), v \in Versions : FetchResolves(i, v)
    \/ \E i \in 1..Len(inflight) : FetchFails(i)

C18_PointerDown ==
    \A t \in PointerTimes :
        ENABLED (/\ HandleMouseDown(t)
                 /\ IF /\ selectionStartRef = NullTime
                       /\ modifierHeld
                       /\ backtestResult = NullResult
                    THEN selectionStartRef' = t /\ ~panZoomEnabled'
                    ELSE UNCHANGED <<selectionStartRef, panZoomEnabled>>
                 /\ UNCHANGED selectedRange)

\* a pointer-down under the modifier has just set the anchor
C18_Witness ==
    /\ selectionStartRef # NullTime
    /\ selectionEndRef = NullTime
    /\ selectedRange = NullRange
    /\ ~panZoomEnabled
    /\ modifierHeld
    /\ backtestResult = NullResult

Max(a, b) == IF a > b THEN a ELSE b

\* a non-null committed range is ordered
RangeOrdered == selectedRange # NullRange => selectedRange.start <= selectedRange.end

\* C19 as stated: during a drag with anchor t0, every pointer-move to a time
\* t with the modifier held publishes {start: min(t0, t), end: max(t0, t)},
\* and a non-null committed range always has start <= end.
C19_EveryMovePublishes ==
    /\ RangeOrdered
    /\ \A t \in PointerTimes :
          (selectionStartRef # NullTime /\ modifierHeld) =>
              ENABLED (/\ HandleMouseMove(t)
                       /\ selectedRange' = [start |-> Min(selectionStartRef, t),
                                            end |-> Max(selectionStartRef, t)])

\* C19 amended: during a drag with anchor t0, a pointer-move to a time t with
\* the modifier held publishes {start: min(t0, t), end: max(t0, t)} while no
\* backtest result is displayed and leaves the committed range as it is
\* while one is displayed; a non-null committed range always has
\* start <= end.
C19_MovePublishesUnlessResult ==
    /\ RangeOrdered
    /\ \A t \in PointerTimes :
          (selectionStartRef # NullTime /\ modifierHeld) =>
              ENABLED (/\ HandleMouseMove(t)
                       /\ IF backtestResult = NullResult
                          THEN selectedRange' =
                                  [start |-> Min(selectionStartRef, t),
                                   end |-> Max(selectionStartRef, t)]
                          ELSE UNCHANGED selectedRange)

\* the drag went from its anchor t0 to an earlier time t1 (a bar that a
\* backward fetch added during the drag): the range published is {t1, t0},
\* and a later time t2 is on the chart as well
C19_Witness ==
    /\ selectionStartRef # NullTime
    /\ selectionEndRef # NullTime
    /\ selectionEndRef < selectionStartRef
    /\ selectedRange = [start |-> selectionEndRef, end |-> selectionStartRef]
    /\ modifierHeld
    /\ backtestResult = NullResult
    /\ \E t2 \in PointerTimes : t2 > selectionStartRef

\* C20: releasing the modifier key clears the anchor and leaves the
\* committed range exactly as it was (as the last pointer-move published it).
C20_ModifierReleased ==
    (mounted /\ modifierHeld) =>
        ENABLED (/\ HandleKeyUp("modifier")
                 /\ selectionStartRef' = NullTime
                 /\ ~modifierHeld'
                 /\ UNCHANGED selectedRange)

\* the modifier was released during a drag: the anchor is gone, the range
\* the drag had published is still committed
C20_Witness ==
    /\ ~modifierHeld
    /\ selectionStartRef = NullTime
    /\ selectionEndRef = NullTime
    /\ selectedRange # NullRange
    /\ selectedRange.start < selectedRange.end
    /\ ~panZoomEnabled

\* C21: when the modifier key is pressed again while a committed range exists
\* from a finished drag (the modifier was released, so no anchor is active),
\* the committed range is cleared and native pan/zoom is enabled again.
C21_ModifierPressedAgain ==
    (/\ mounted
     /\ ~modifierHeld
     /\ selectionStartRef = NullTime
     /\ selectedRange # NullRange) =>
        ENABLED (/\ HandleKeyDown("modifier")
                 /\ selectedRange' = NullRange
                 /\ panZoomEnabled')

\* the anchor and the committed range are null and pan/zoom is enabled after
\* the step
Cleared ==
    /\ selectionStartRef' = NullTime
    /\ selectedRange' = NullRange
    /\ panZoomEnabled'

\* C22: clear, in whatever state it is called (the clear button's
\* handleClear, the clearOverlay of a timeframe change), leaves the anchor
\* null, the committed range null and native pan/zoom enabled.
C22_ClearUnconditional ==
    /\ ENABLED HandleClear => ENABLED (HandleClear /\ Cleared)
    /\ \A itv \in IntervalChoices :
          ENABLED SetTimeframe(itv) => ENABLED (SetTimeframe(itv) /\ Cleared)

\* the clear button was pressed with no result displayed (its reload is
\* pending over the series that stays on the chart): nothing of the
\* selection is left although the modifier is still held
C22_Witness ==
    /\ lastFetch.result = "pending"
    /\ lastFetch.visible = NoEvent
    /\ candlestickData # <<>>
    /\ modifierHeld
    /\ selectionStartRef = NullTime
    /\ selectionEndRef = NullTime
    /\ selectedRange = NullRange
    /\ panZoomEnabled

\* C23: when a backtest request ends in a non-2xx response or a network
\* failure, exactly one error notification is added (the detail of the
\* response if it has one), the displayed result and the committed range
\* stay as they are, the backtest loading flag is cleared, and no request is
\* issued in its place.
C23_BacktestFailure ==
    \A i \in 1..Len(backtestInflight), outcome \in FailureOutcomes :
        Len(messages) < MaxMessages =>
            ENABLED (/\ BacktestFails(i, outcome)
                     /\ Len(messages') = Len(messages) + 1
                     /\ SubSeq(messages', 1, Len(messages)) = messages
                     /\ outcome = "detail" =>
                           messages'[Len(messages')] = "detail"
                     /\ UNCHANGED <<backtestResult, selectedRange>>
                     /\ ~isLoadingBacktest'
                     /\ backtestInflight' = RemoveAt(backtestInflight, i))

\* a backtest was refused with a detail: its text is shown, the drawer and
\* the committed range are still there, nothing is in flight
C23_Witness ==
    /\ Len(messages) = 1
    /\ messages[1] = "detail"
    /\ ~isLoadingBacktest
    /\ backtestInflight = <<>>
    /\ backtestResult = NullResult
    /\ selectedRange # NullRange
    /\ drawerVisible

\* C24: whenever the form can be submitted a committed range exists, and the
\* request that handleSubmit sends carries the start and the end of that
\* range as ISO-8601 (UTC) date-times.
C24_RequestCarriesRange ==
    ENABLED HandleSubmit =>
        /\ selectedRange # NullRange
        /\ ENABLED (/\ HandleSubmit
                    /\ backtestInflight'[Len(backtestInflight')] =
                          [startTime |-> StampOf(selectedRange.start),
                           endTime |-> StampOf(selectedRange.end)])

\* C25: native pan/zoom is disabled only for the duration of a gesture: in
\* every reachable state in which no anchor is set, pan/zoom is enabled.
C25_PanZoomOffOnlyInGesture ==
    selectionStartRef = NullTime => panZoomEnabled

\* C26: while a backtest result is displayed, no pointer-down and no
\* pointer-move, at whatever time and whether or not the modifier is held,
\* changes the anchor or the committed range.
C26_NoSelectionOverResult ==
    backtestResult # NullResult =>
        \A t \in PointerTimes \cup {NullTime} :
            /\ ENABLED (/\ HandleMouseDown(t)
                        /\ UNCHANGED <<selectionStartRef, selectedRange>>)
            /\ ENABLED (/\ HandleMouseMove(t)
                        /\ UNCHANGED <<selectionStartRef, selectedRange>>)

\* a result is displayed while an anchor is still set and the modifier is
\* held, so that a pointer-move would publish were it not for the result
C26_Witness ==
    /\ backtestResult # NullResult
    /\ candlestickData = ResultCandles(backtestResult)
    /\ selectionStartRef # NullTime
    /\ modifierHeld
    /\ \E t \in PointerTimes :
          selectedRange # [start |-> Min(selectionStartRef, t),
                           end |-> Max(selectionStartRef, t)]

\* C27: in every reachable state a non-null anchor implies that the modifier
\* key is currently held. It holds while the window keeps the focus (Spec),
\* where every release is heard by handleKeyUp; it fails in SpecFocusLost.
C27_AnchorImpliesModifier ==
    selectionStartRef # NullTime => modifierHeld

\* C28: a pointer-move that arrives while no anchor is active, or while the
\* modifier key is not held, changes neither the anchor nor the committed
\* range, whatever the time under the pointer.
C28_MoveOutsideGesture ==
    (mounted /\ (selectionStartRef = NullTime \/ ~modifierHeld)) =>
        \A t \in PointerTimes \cup {NullTime} :
            ENABLED (/\ HandleMouseMove(t)
                     /\ UNCHANGED <<selectionStartRef, selectedRange>>)

\* an anchor is active, a range is committed and no result is displayed, and
\* only the released modifier keeps a pointer-move from publishing
C28_Witness ==
    /\ selectionStartRef # NullTime
    /\ ~modifierHeld
    /\ backtestResult = NullResult
    /\ selectedRange # NullRange
    /\ \E t \in PointerTimes :
          selectedRange # [start |-> Min(selectionStartRef, t),
                           end |-> Max(selectionStartRef, t)]

\* C29: when the loading flag is false and the leftmost visible logical index
\* of a viewport-changed event cannot be mapped to a time, the event issues a
\* fetch: one more request is in flight, it asks for the candles of the
\* active interval that precede the load cursor, and the flag is set.
C29_UnmappedIndexFetches ==
    (/\ ENABLED HandleScroll("range", NullTime)
     /\ ~isLoadingRef
     /\ ~isLoading) =>
        ENABLED (/\ HandleScroll("range", NullTime)
                 /\ Len(inflight') = Len(inflight) + 1
                 /\ inflight'[Len(inflight')].end_time = ScrollAnchor
                 /\ inflight'[Len(inflight')].interval = timeframe
                 /\ isLoadingRef'
                 /\ isLoading')

\* the request of a viewport event whose index mapped to no time is
\* unanswered
C29_Witness ==
    /\ lastFetch.result = "pending"
    /\ lastFetch.visible = NullTime
    /\ Len(inflight) = 1
    /\ inflight[1].end_time = ScrollAnchor
    /\ isLoadingRef

\* C30 as stated: whenever an anchor is active and the modifier is held, a
\* pointer-move over a candle for which the surface has no coordinate for
\* the start or the end of the range still sets the committed range to
\* {min(anchor, time), max(anchor, time)}, leaves the overlay as it was and
\* reports no error.
C30_UnmappedMovePublishes ==
    (/\ mounted
     /\ selectionStartRef # NullTime
     /\ modifierHeld) =>
        \A t \in PointerTimes, unmapped \in (SUBSET RangeEnds) \ {{}} :
            ENABLED (/\ HandleMouseMoveOn(t, unmapped)
                     /\ selectedRange' = [start |-> Min(selectionStartRef, t),
                                          end |-> Max(selectionStartRef, t)]
                     /\ overlay' = overlay
                     /\ messages' = messages
                     /\ unhandledRejection' = unhandledRejection)

\* C30, amended: the same while no backtest result is displayed; over a
\* displayed result the move is ignored and the committed range stays as it
\* was.
C30_UnmappedMovePublishesUnlessResult ==
    (/\ mounted
     /\ selectionStartRef # NullTime
     /\ modifierHeld) =>
        \A t \in PointerTimes, unmapped \in (SUBSET RangeEnds) \ {{}} :
            ENABLED (/\ HandleMouseMoveOn(t, unmapped)
                     /\ selectedRange' =
                           IF backtestResult = NullResult
                           THEN [start |-> Min(selectionStartRef, t),
                                 end |-> Max(selectionStartRef, t)]
                           ELSE selectedRange
                     /\ overlay' = overlay
                     /\ messages' = messages
                     /\ unhandledRejection' = unhandledRejection)

\* a drag is active and its last pointer-move met a surface without the
\* coordinates: the committed range has moved on, the overlay has not
C30_Witness ==
    /\ selectionStartRef # NullTime
    /\ selectionEndRef # NullTime
    /\ modifierHeld
    /\ backtestResult = NullResult
    /\ selectedRange = [start |-> Min(selectionStartRef, selectionEndRef),
                        end |-> Max(selectionStartRef, selectionEndRef)]
    /\ overlay # selectedRange
    /\ messages = <<>>

\* C31: a pointer-down that arrives with the modifier not held while a
\* committed range exists clears the committed range.
C31_UnmodifiedDownClears ==
    (/\ mounted
     /\ ~modifierHeld
     /\ selectedRange # NullRange) =>
        \A t \in PointerTimes :
            ENABLED (/\ HandleMouseDown(t)
                     /\ selectedRange' = NullRange)

\* the candle that comes last among those of allData with the time t
LastWithTime(allData, t) ==
    LET at == {k \in 1..Len(allData) : allData[k].time = t}
    IN allData[CHOOSE k \in at : \A j \in at : j <= k]

\* C32: when a fetch resolves with a non-empty batch, the series holds, for
\* every time of the concatenation of the new batch followed by the existing
\* series, exactly one candle, and it is the one that comes last in that
\* concatenation; so for a time present in both it is the existing candle.
C32_LastWriteWins ==
    [][\A i \in 1..Len(inflight), v \in Versions :
          (FetchResolves(i, v) /\ Len(ResponseFor(inflight[i], v)) > 0) =>
              LET allData == FormattedData(ResponseFor(inflight[i], v)) \o
                                (IF inflight[i].keepPreviousData
                                 THEN candlestickData ELSE <<>>)
              IN \A k \in 1..Len(allData) :
                    LET t == allData[k].time
                        held == {j \in 1..Len(candlestickData') :
                                    candlestickData'[j].time = t}
                    IN /\ Cardinality(held) = 1
                       /\ \A j \in held :
                             candlestickData'[j] = LastWithTime(allData, t)]_vars

\* a batch that shared times with the series has been merged into it, and
\* the series holds a forming candle of other than the first content
C32_Witness ==
    /\ lastFetch.result = "data"
    /\ lastFetch.keep
    /\ lastFetch.overlap
    /\ \E j \in 1..Len(candlestickData) : candlestickData[j].val # 1

\* C33: no fetch is retried automatically. A request is in flight only
\* while the event that came last in the loader's history is an issue by one
\* of the triggers (the mount, a reload, an interval change, a viewport
\* event): once a fetch has completed, with data, empty or failed, nothing
\* is in flight until the next trigger issues a request.
C33_NoAutomaticRetry ==
    /\ Len(inflight) > 0 => lastFetch.result = "pending"
    /\ lastFetch.result \in {"failed", "empty", "data"} => inflight = <<>>

\* a fetch has failed while the chart shows candles, and nothing is in flight
C33_Witness ==
    /\ lastFetch.result = "failed"
    /\ unhandledRejection
    /\ inflight = <<>>
    /\ candlestickData # <<>>

\* C34: under any interleaving of interval changes with fetches, every
\* batch that enters the series was asked for at the interval that is
\* selected when it enters: a fetch never resolves into the series, and
\* clears the loading flag, with candles of an interval other than the
\* current one.
C34_SeriesOfCurrentInterval ==
    [][\A i \in 1..Len(inflight), v \in Versions :
          (/\ FetchResolves(i, v)
           /\ Len(ResponseFor(inflight[i], v)) > 0
           /\ candlestickData' # <<>>
           /\ ~isLoadingRef') => inflight[i].interval = timeframe]_vars

\* C35: whenever a backtest result is displayed a committed range exists,
\* so that the clear control that dismisses the result is rendered.
C35_ResultImpliesRange ==
    backtestResult # NullResult => selectedRange # NullRange

\* C36: the viewport handler never issues a fetch while the load cursor is
\* null: in every state in which a viewport event would issue a request,
\* the cursor and the oldest loaded time are set, and the request carries
\* the anchor derived from the cursor, never "Invalid Date".
C36_ScrollAnchorDefined ==
    \A visibleTime \in ChartTimes \cup {NullTime} :
        ENABLED ScrollIssued(visibleTime) =>
            /\ oldestTimestampRef # NullStamp
            /\ Truthy(OldestLoadedTime)
            /\ ENABLED (/\ ScrollIssued(visibleTime)
                        /\ inflight'[Len(inflight')].end_time = ScrollAnchor
                        /\ inflight'[Len(inflight')].end_time # InvalidDate)

\* the request of a viewport event that reported a time near the oldest
\* candle is unanswered
C36_Witness ==
    /\ lastFetch.result = "pending"
    /\ lastFetch.visible \in ChartTimes
    /\ Len(inflight) = 1
    /\ oldestTimestampRef # NullStamp
    /\ inflight[1].end_time = ScrollAnchor
    /\ inflight[1].end_time # InvalidDate

\* C37: backward pagination skips no candle. When a fetch issued by a
\* viewport event from a series whose oldest time is T resolves with a
\* non-empty batch, every stored candle whose time lies between the newest
\* time of the batch and T is in the series.
C37_NoCandleSkipped ==
    [][\A i \in 1..Len(inflight), v \in Versions :
          LET price_data == ResponseFor(inflight[i], v)
          IN (/\ FetchResolves(i, v)
              /\ lastFetch.result = "pending"
              /\ lastFetch.visible # NoEvent
              /\ Truthy(OldestLoadedTime)
              /\ Len(price_data) > 0) =>
                 \A ts \in StoreStamps :
                    (/\ ParseUTC(price_data[Len(price_data)].timestamp) <= ParseUTC(ts)
                     /\ ParseUTC(ts) < OldestLoadedTime) =>
                        ParseUTC(ts) \in Times(candlestickData')]_vars

\* C38: the backtest loading flag is true whenever at least one backtest
\* request is in flight, also when the form is submitted again before an
\* earlier request has been answered.
C38_BacktestFlagWhileInFlight ==
    Len(backtestInflight) > 0 => isLoadingBacktest

\* C39: every started sync ends with exactly one terminal notification, also
\* when a status request itself fails: a sync that has stopped, with no
\* request unanswered and no timer set, has raised exactly one
\* message.success or message.error.
C39_SyncEndsNotified ==
    \A k \in 1..Len(sync.tasks) :
        sync.tasks[k].state \notin {"starting", "polling", "waiting"} =>
            sync.tasks[k].notified = 1

====
